---------------------------- MODULE Spec2Model ----------------------------
(***************************************************************************)
(* example.ipynb of the TimeSformer repository: a kernel that runs the     *)
(* notebook's cells (imports, the commented-out cell, the construction of  *)
(* the TimeSformer model from a pretrained-weights file, the forward pass  *)
(* on a random clip with its shape assertion, the reshape scratch cell and *)
(* the plotting scratch cell), statement by statement.                     *)
(*                                                                         *)
(* timesformer.models.vit (the TimeSformer class: weight loading and the   *)
(* forward pass) is not among the sources modelled here; Construct and     *)
(* Forward follow spec.md sections 3 and 4.1.                              *)
(***************************************************************************)
EXTENDS Integers, Sequences, FiniteSets, TLC

VARIABLES
    mode,      \* "notebook": the cells are run; "api": construct/infer are called directly
    fs,        \* the filesystem: path -> the weights artifact stored there
    cur,       \* the cell being run, or "idle" between cells
    stmt,      \* the statement of cur to run next
    ran,       \* the cells that ran to their end
    ns,        \* the kernel's namespace: variable name -> value
    out,       \* cell -> its displayed result (the value of its last expression)
    errors,    \* the exceptions raised so far
    halted,    \* an exception reached the top level: execution stopped
    nexec,     \* history: the number of statements executed
    writer,    \* history: variable name -> the cell that last assigned it
    reads,     \* history: every read of a variable, with the cell that had assigned it
    drawn,     \* history: the tensor torch.randn returned in the reshape cell
    built,     \* history: the model instance as TimeSformer(...) returned it
    calls      \* history: the number of forward calls made

vars == <<mode, fs, cur, stmt, ran, ns, out, errors, halted, nexec,
          writer, reads, drawn, built, calls>>

-----------------------------------------------------------------------------
(* Bounds of the model *)

\* T, B, H, W of the reshape cell are drawn from 1..MaxDim
MaxDim == 2
\* torch.randn draws are indexed by a seed in 0..MaxSeed
MaxSeed == 2
\* the batch size of a clip batch handed to infer is in 1..MaxBatch
MaxBatch == 4
\* the number of forward calls on one model instance
MaxCalls == 3

-----------------------------------------------------------------------------
(* Tensors: a shape, strides and a row-major storage, as torch lays them out *)

RECURSIVE Prod(_)
Prod(s) == IF s = <<>> THEN 1 ELSE Head(s) * Prod(Tail(s))

RECURSIVE Dot(_, _)
Dot(a, b) == IF a = <<>> THEN 0 ELSE Head(a) * Head(b) + Dot(Tail(a), Tail(b))

Max(a, b) == IF a >= b THEN a ELSE b

\* strides of a contiguous (row-major) tensor of this shape
ContiguousStrides(shape) ==
    [d \in 1..Len(shape) |-> Prod(SubSeq(shape, d + 1, Len(shape)))]

Numel(t) == Prod(t.shape)

IsContiguous(t) == t.strides = ContiguousStrides(t.shape)

\* zero-based multi-index of the k-th element (k zero-based) in row-major order
Unravel(k, shape) ==
    [d \in 1..Len(shape) |-> (k \div Prod(SubSeq(shape, d + 1, Len(shape)))) % shape[d]]

\* the element of t at a zero-based multi-index
At(t, idx) == t.storage[1 + Dot(idx, t.strides)]

\* a shape argument with one -1 entry: that entry is inferred from the element count
KnownProd(shape) ==
    Prod([d \in 1..Len(shape) |-> IF shape[d] = -1 THEN 1 ELSE shape[d]])

InferSize(shape, numel) ==
    [d \in 1..Len(shape) |-> IF shape[d] = -1 THEN numel \div KnownProd(shape) ELSE shape[d]]

ShapeFits(shape, numel) ==
    /\ Cardinality({d \in 1..Len(shape) : shape[d] = -1}) <= 1
    /\ KnownProd(shape) > 0
    /\ Prod(InferSize(shape, numel)) = numel

\* torch.randn(*shape): a fresh contiguous tensor; the draw is indexed by a seed
\* (seed 0: all elements distinct; seed s: runs of s+1 equal elements)
Randn(shape, seed) ==
    [shape   |-> shape,
     strides |-> ContiguousStrides(shape),
     storage |-> [k \in 1..Prod(shape) |-> (k - 1) \div (seed + 1)]]

\* a copy of t laid out contiguously, elements in logical order
Contiguous(t) ==
    [shape   |-> t.shape,
     strides |-> ContiguousStrides(t.shape),
     storage |-> [k \in 1..Numel(t) |-> At(t, Unravel(k - 1, t.shape))]]

\* Tensor.view(*shape): the same storage under a new shape
View(t, shape) ==
    [shape   |-> InferSize(shape, Numel(t)),
     strides |-> ContiguousStrides(InferSize(shape, Numel(t))),
     storage |-> t.storage]

\* torch.reshape(t, shape): a view when t is contiguous, a copy otherwise
Reshape(t, shape) ==
    IF IsContiguous(t) THEN View(t, shape) ELSE View(Contiguous(t), shape)

\* torch.flatten(t, start_dim): dimensions start_dim.. (zero-based) become one
Flatten(t, start_dim) ==
    Reshape(t, SubSeq(t.shape, 1, start_dim) \o <<-1>>)

\* broadcasting of two shapes, aligned at the trailing dimension
PadShape(shape, n) == [d \in 1..n |-> IF d <= n - Len(shape) THEN 1 ELSE shape[d - (n - Len(shape))]]

Broadcastable(a, b) ==
    LET n == Max(Len(a), Len(b))
    IN  \A d \in 1..n :
            \/ PadShape(a, n)[d] = PadShape(b, n)[d]
            \/ PadShape(a, n)[d] = 1
            \/ PadShape(b, n)[d] = 1

BroadcastShape(a, b) ==
    LET n == Max(Len(a), Len(b))
    IN  [d \in 1..n |-> Max(PadShape(a, n)[d], PadShape(b, n)[d])]

\* the index into an operand of shape `shape` for index idx of the broadcast result
BIndex(idx, shape) ==
    [d \in 1..Len(shape) |->
        IF shape[d] = 1 THEN 0 ELSE idx[d + (Len(idx) - Len(shape))]]

\* a == b: the element-wise comparison, a boolean tensor of the broadcast shape
Eq(a, b) ==
    LET bs == BroadcastShape(a.shape, b.shape)
    IN  [shape   |-> bs,
         strides |-> ContiguousStrides(bs),
         storage |-> [k \in 1..Prod(bs) |->
                        At(a, BIndex(Unravel(k - 1, bs), a.shape))
                      = At(b, BIndex(Unravel(k - 1, bs), b.shape))]]

\* torch.sum of a boolean tensor: the number of true elements
Sum(t) == Cardinality({k \in 1..Len(t.storage) : t.storage[k]})

-----------------------------------------------------------------------------
(* timesformer.models.vit.TimeSformer, as spec.md sections 3 and 4.1 describe it *)

AttentionTypes == {"divided_space_time", "joint_space_time"}

\* the architecture a configuration implies: what the parameter shapes depend on
Arch(config) ==
    [img_size       |-> config.img_size,
     num_classes    |-> config.num_classes,
     num_frames     |-> config.num_frames,
     attention_type |-> config.attention_type]

\* construct(config): the weights artifact at config.pretrained_model is read and,
\* when its parameter shapes are those of Arch(config), a model instance owning
\* the artifact's parameters is returned; otherwise an error and no instance
Construct(config, files) ==
    IF config.pretrained_model \notin DOMAIN files
    THEN [error |-> "FileNotFoundError", model |-> <<>>]
    ELSE IF files[config.pretrained_model].arch # Arch(config)
    THEN [error |-> "MismatchError", model |-> <<>>]
    ELSE [error |-> "none",
          model |-> <<[config |-> config,
                       params |-> files[config.pretrained_model].params]>>]

\* a clip batch whose channel/time/height/width are those of the configuration
ClipMatches(m, x) ==
    /\ Len(x.shape) = 5
    /\ x.shape[1] >= 1
    /\ SubSeq(x.shape, 2, 5)
         = <<3, m.config.num_frames, m.config.img_size, m.config.img_size>>

\* infer(model, clip_batch): the prediction tensor (one row per clip, one column
\* per class) and the model instance after the call. The prediction's values are
\* not modelled: only its shape is specified
Forward(m, x) ==
    [pred  |-> [shape |-> <<x.shape[1], m.config.num_classes>>],
     model |-> m]

-----------------------------------------------------------------------------
(* The kernel: namespace, cells, statements *)

Cells == {"imports", "commented", "construct", "infer", "reshape", "plot"}

\* the statements of each cell
NumStmts(cell) ==
    CASE cell = "imports"   -> 1
      [] cell = "commented" -> 1
      [] cell = "construct" -> 2
      [] cell = "infer"     -> 4
      [] cell = "reshape"   -> 8
      [] cell = "plot"      -> 5

\* the cells that ran before a cell is run: the harness cells in notebook order,
\* the scratch cells anywhere after the imports
Before(cell) ==
    CASE cell = "imports"   -> {}
      [] cell = "commented" -> {"imports"}
      [] cell = "construct" -> {"imports", "commented"}
      [] cell = "infer"     -> {"imports", "commented", "construct"}
      [] cell = "reshape"   -> {"imports"}
      [] cell = "plot"      -> {"imports"}

Empty == [x \in {} |-> 0]

Bind(n, name, val) == (name :> val) @@ n

\* statement s of cell is the next to run
Running(cell, s) ==
    /\ mode = "notebook"
    /\ ~halted
    /\ IF s = 1
       THEN cur = "idle" /\ cell \notin ran /\ Before(cell) \subseteq ran
       ELSE cur = cell /\ stmt = s

\* the statement completed: on to the next one, or the cell is done
Advance(cell, s) ==
    IF s = NumStmts(cell)
    THEN cur' = "idle" /\ stmt' = 1 /\ ran' = ran \cup {cell}
    ELSE cur' = cell /\ stmt' = s + 1 /\ ran' = ran

\* mutant of Raise: the exception is reported and the run goes on
RaiseAndContinue(cell, s, kind) ==
    /\ errors' = Append(errors, [cell |-> cell, stmt |-> s, kind |-> kind, at |-> nexec + 1])
    /\ halted' = FALSE
    /\ Advance(cell, s)

\* the statement raised: nothing in the notebook catches it
Raise(cell, s, kind) ==
    /\ errors' = Append(errors, [cell |-> cell, stmt |-> s, kind |-> kind, at |-> nexec + 1])
    /\ halted' = TRUE
    /\ cur' = cell /\ stmt' = s /\ ran' = ran

Completes(cell, s) == Advance(cell, s) /\ UNCHANGED <<errors, halted>>

Reads(cell, names) ==
    reads' = reads \cup {[cell |-> cell, var |-> v, from |-> writer[v]] : v \in names}

Writes(cell, names) == writer' = [v \in names |-> cell] @@ writer

ModelFile == "TimeSformer_divST_8x32_224_K600.pyth"

\* the keyword arguments of the TimeSformer(...) call
NotebookConfig(path) ==
    [img_size         |-> 224,
     num_classes      |-> 600,
     num_frames       |-> 8,
     attention_type   |-> "divided_space_time",
     pretrained_model |-> path]

\* mutant of ClipShape: a batch of 3 clips
ClipShapeThree == <<3, 3, 8, 224, 224>>

\* torch.randn(2, 3, 8, 224, 224); the elements of a clip are not stored, the
\* draw is named by its seed
ClipShape == <<2, 3, 8, 224, 224>>

RandnClip(shape, seed) == [shape |-> shape, draw |-> seed]

\* the shape the assertion compares pred.shape with
ExpectedShape == <<2, 600>>

(* cell 08fe0c59 *)
Imports ==
    /\ Running("imports", 1)
    /\ nexec' = nexec + 1
    /\ Completes("imports", 1)
    /\ UNCHANGED <<mode, fs, ns, out, writer, reads, drawn, built, calls>>

(* cell 10239d32: comments only *)
Commented ==
    /\ Running("commented", 1)
    /\ nexec' = nexec + 1
    /\ Completes("commented", 1)
    /\ UNCHANGED <<mode, fs, ns, out, writer, reads, drawn, built, calls>>

(* cell 652fb03e *)
AssignModelFile ==
    /\ Running("construct", 1)
    /\ nexec' = nexec + 1
    /\ ns' = Bind(ns, "model_file", ModelFile)
    /\ Writes("construct", {"model_file"})
    /\ Completes("construct", 1)
    /\ UNCHANGED <<mode, fs, out, reads, drawn, built, calls>>

\* mutant of ConstructModel: the exception is caught and an instance without
\* loaded weights is bound
ConstructModelSwallow ==
    /\ Running("construct", 2)
    /\ nexec' = nexec + 1
    /\ LET res == Construct(NotebookConfig(ns["model_file"]), fs)
       IN  /\ Reads("construct", {"model_file"})
           /\ IF res.error = "none"
              THEN /\ ns' = Bind(ns, "model", res.model[1])
                   /\ built' = res.model
              ELSE /\ ns' = Bind(ns, "model",
                                 [config |-> NotebookConfig(ns["model_file"]), params |-> 0])
                   /\ built' = <<[config |-> NotebookConfig(ns["model_file"]), params |-> 0]>>
           /\ Writes("construct", {"model"})
           /\ Completes("construct", 2)
    /\ UNCHANGED <<mode, fs, out, drawn, calls>>

\* mutant of ConstructModel: a non-strict load keeps the instance when the
\* artifact's architecture differs
ConstructModelNonStrict ==
    /\ Running("construct", 2)
    /\ nexec' = nexec + 1
    /\ LET cfg == NotebookConfig(ns["model_file"])
       IN  /\ Reads("construct", {"model_file"})
           /\ IF cfg.pretrained_model \in DOMAIN fs
              THEN /\ ns' = Bind(ns, "model",
                                 [config |-> cfg, params |-> fs[cfg.pretrained_model].params])
                   /\ built' = <<[config |-> cfg, params |-> fs[cfg.pretrained_model].params]>>
                   /\ Writes("construct", {"model"})
                   /\ Completes("construct", 2)
              ELSE /\ Raise("construct", 2, "FileNotFoundError")
                   /\ UNCHANGED <<ns, writer, built>>
    /\ UNCHANGED <<mode, fs, out, drawn, calls>>

ConstructModel ==
    /\ Running("construct", 2)
    /\ nexec' = nexec + 1
    /\ IF "model_file" \notin DOMAIN ns
       THEN /\ Raise("construct", 2, "NameError")
            /\ UNCHANGED <<ns, writer, reads, built>>
       ELSE LET res == Construct(NotebookConfig(ns["model_file"]), fs)
            IN  /\ Reads("construct", {"model_file"})
                /\ IF res.error = "none"
                   THEN /\ ns' = Bind(ns, "model", res.model[1])
                        /\ built' = res.model
                        /\ Writes("construct", {"model"})
                        /\ Completes("construct", 2)
                   ELSE /\ Raise("construct", 2, res.error)
                        /\ UNCHANGED <<ns, writer, built>>
    /\ UNCHANGED <<mode, fs, out, drawn, calls>>

(* cell 83de13c5 *)
DrawDummyVideo ==
    /\ Running("infer", 1)
    /\ nexec' = nexec + 1
    /\ \E seed \in 0..MaxSeed :
          ns' = Bind(ns, "dummy_video", RandnClip(ClipShape, seed))
    /\ Writes("infer", {"dummy_video"})
    /\ Completes("infer", 1)
    /\ UNCHANGED <<mode, fs, out, reads, drawn, built, calls>>

CallModel ==
    /\ Running("infer", 2)
    /\ nexec' = nexec + 1
    /\ IF ~({"model", "dummy_video"} \subseteq DOMAIN ns)
       THEN /\ Raise("infer", 2, "NameError")
            /\ UNCHANGED <<ns, writer, reads, calls>>
       ELSE LET res == Forward(ns["model"], ns["dummy_video"])
            IN  /\ Reads("infer", {"model", "dummy_video"})
                /\ ns' = Bind(Bind(ns, "pred", res.pred), "model", res.model)
                /\ calls' = calls + 1
                /\ Writes("infer", {"pred"})
                /\ Completes("infer", 2)
    /\ UNCHANGED <<mode, fs, out, drawn, built>>

AssertShape ==
    /\ Running("infer", 3)
    /\ nexec' = nexec + 1
    /\ IF "pred" \notin DOMAIN ns
       THEN Raise("infer", 3, "NameError") /\ UNCHANGED reads
       ELSE /\ Reads("infer", {"pred"})
            /\ IF ns["pred"].shape = ExpectedShape
               THEN Completes("infer", 3)
               ELSE Raise("infer", 3, "AssertionError")
    /\ UNCHANGED <<mode, fs, ns, out, writer, drawn, built, calls>>

ShowShape ==
    /\ Running("infer", 4)
    /\ nexec' = nexec + 1
    /\ IF "pred" \notin DOMAIN ns
       THEN Raise("infer", 4, "NameError") /\ UNCHANGED <<reads, out>>
       ELSE /\ Reads("infer", {"pred"})
            /\ out' = Bind(out, "infer", ns["pred"].shape)
            /\ Completes("infer", 4)
    /\ UNCHANGED <<mode, fs, ns, writer, drawn, built, calls>>

-----------------------------------------------------------------------------
(* numpy arrays of the plotting cell: same layout; an element is a fraction <<n, d>> *)

\* np.linspace(start, stop, num): num evenly spaced values, both ends included
Linspace(start, stop, num) ==
    [shape   |-> <<num>>,
     strides |-> <<1>>,
     storage |-> [k \in 1..num |->
                    <<start * (num - 1) + (k - 1) * (stop - start), num - 1>>]]

\* np.tile(a, reps) of a 2-d array with 2 repetition counts
Tile(a, reps) ==
    LET shape == <<a.shape[1] * reps[1], a.shape[2] * reps[2]>>
    IN  [shape   |-> shape,
         strides |-> ContiguousStrides(shape),
         storage |-> [k \in 1..Prod(shape) |->
                        At(a, <<Unravel(k - 1, shape)[1] % a.shape[1],
                                Unravel(k - 1, shape)[2] % a.shape[2]>>)]]

-----------------------------------------------------------------------------
(* cell 2dcdda7e: the reshape scratch cell *)

\* T, B, C, H, W as the notebook sets them
NotebookDims == <<80, 4, 3, 11, 11>>

\* the dimensions the model runs the cell with: C is 1 or the notebook's 3, the
\* rest bounded
DimChoices == {<<t, b, c, h, w>> : t \in 1..MaxDim, b \in 1..MaxDim, c \in {1, 3},
                                   h \in 1..MaxDim, w \in 1..MaxDim}

DimNames == <<"T", "B", "C", "H", "W">>

FooShape(n) == [d \in 1..5 |-> n[DimNames[d]]]

AssignDims ==
    /\ Running("reshape", 1)
    /\ nexec' = nexec + 1
    /\ \E dims \in DimChoices :
          ns' = [d \in {"T", "B", "C", "H", "W"} |->
                    dims[CHOOSE i \in 1..5 : DimNames[i] = d]] @@ ns
    /\ Writes("reshape", {"T", "B", "C", "H", "W"})
    /\ Completes("reshape", 1)
    /\ UNCHANGED <<mode, fs, out, reads, drawn, built, calls>>

DrawFoo ==
    /\ Running("reshape", 2)
    /\ nexec' = nexec + 1
    /\ Reads("reshape", {"T", "B", "C", "H", "W"})
    /\ \E seed \in 0..MaxSeed :
          /\ ns' = Bind(ns, "foo", Randn(FooShape(ns), seed))
          /\ drawn' = <<Randn(FooShape(ns), seed)>>
    /\ Writes("reshape", {"foo"})
    /\ Completes("reshape", 2)
    /\ UNCHANGED <<mode, fs, out, built, calls>>

\* the first two dimensions of t exchanged (a non-contiguous view)
Transpose01(t) ==
    [shape   |-> <<t.shape[2], t.shape[1]>> \o SubSeq(t.shape, 3, Len(t.shape)),
     strides |-> <<t.strides[2], t.strides[1]>> \o SubSeq(t.strides, 3, Len(t.strides)),
     storage |-> t.storage]

\* mutant of ViewFoo: the rows are taken batch-major (B.T) instead of T.B
ViewFooTransposed ==
    /\ Running("reshape", 3)
    /\ nexec' = nexec + 1
    /\ Reads("reshape", {"foo", "T", "B"})
    /\ ns' = Bind(ns, "foo_f1", Reshape(Transpose01(ns["foo"]), <<ns["T"] * ns["B"], -1>>))
    /\ Writes("reshape", {"foo_f1"})
    /\ Completes("reshape", 3)
    /\ UNCHANGED <<mode, fs, out, drawn, built, calls>>

ViewFoo ==
    /\ Running("reshape", 3)
    /\ nexec' = nexec + 1
    /\ Reads("reshape", {"foo", "T", "B"})
    /\ IF IsContiguous(ns["foo"]) /\ ShapeFits(<<ns["T"] * ns["B"], -1>>, Numel(ns["foo"]))
       THEN /\ ns' = Bind(ns, "foo_f1", View(ns["foo"], <<ns["T"] * ns["B"], -1>>))
            /\ Writes("reshape", {"foo_f1"})
            /\ Completes("reshape", 3)
       ELSE /\ Raise("reshape", 3, "RuntimeError")
            /\ UNCHANGED <<ns, writer>>
    /\ UNCHANGED <<mode, fs, out, drawn, built, calls>>

FlattenFoo ==
    /\ Running("reshape", 4)
    /\ nexec' = nexec + 1
    /\ Reads("reshape", {"foo"})
    /\ ns' = Bind(ns, "foo_f2", Flatten(ns["foo"], 2))
    /\ Writes("reshape", {"foo_f2"})
    /\ Completes("reshape", 4)
    /\ UNCHANGED <<mode, fs, out, drawn, built, calls>>

\* mutant of ReshapeFoo: the statement is missing, foo_f2 stays the flatten result
ReshapeFooDropped ==
    /\ Running("reshape", 5)
    /\ nexec' = nexec + 1
    /\ Completes("reshape", 5)
    /\ UNCHANGED <<mode, fs, ns, out, writer, reads, drawn, built, calls>>

ReshapeFoo ==
    /\ Running("reshape", 5)
    /\ nexec' = nexec + 1
    /\ Reads("reshape", {"foo", "T", "B"})
    /\ IF ShapeFits(<<ns["T"] * ns["B"], -1>>, Numel(ns["foo"]))
       THEN /\ ns' = Bind(ns, "foo_f2", Reshape(ns["foo"], <<ns["T"] * ns["B"], -1>>))
            /\ Writes("reshape", {"foo_f2"})
            /\ Completes("reshape", 5)
       ELSE /\ Raise("reshape", 5, "RuntimeError")
            /\ UNCHANGED <<ns, writer>>
    /\ UNCHANGED <<mode, fs, out, drawn, built, calls>>

\* foo_f1.shape, foo_f2.shape: evaluated, not displayed (not the cell's last expression)
EvalShapes ==
    /\ Running("reshape", 6)
    /\ nexec' = nexec + 1
    /\ Reads("reshape", {"foo_f1", "foo_f2"})
    /\ Completes("reshape", 6)
    /\ UNCHANGED <<mode, fs, ns, out, writer, drawn, built, calls>>

\* foo_f1 == foo_f2: evaluated, not displayed
EvalEq ==
    /\ Running("reshape", 7)
    /\ nexec' = nexec + 1
    /\ Reads("reshape", {"foo_f1", "foo_f2"})
    /\ IF Broadcastable(ns["foo_f1"].shape, ns["foo_f2"].shape)
       THEN Completes("reshape", 7)
       ELSE Raise("reshape", 7, "RuntimeError")
    /\ UNCHANGED <<mode, fs, ns, out, writer, drawn, built, calls>>

\* mutant of SumEq: the sum is assigned to the name pred
SumEqIntoPred ==
    /\ Running("reshape", 8)
    /\ nexec' = nexec + 1
    /\ Reads("reshape", {"foo_f1", "foo_f2"})
    /\ ns' = Bind(ns, "pred", Sum(Eq(ns["foo_f1"], ns["foo_f2"])))
    /\ Writes("reshape", {"pred"})
    /\ Completes("reshape", 8)
    /\ UNCHANGED <<mode, fs, out, drawn, built, calls>>

\* torch.sum(foo_f1 == foo_f2): the cell's displayed result
SumEq ==
    /\ Running("reshape", 8)
    /\ nexec' = nexec + 1
    /\ Reads("reshape", {"foo_f1", "foo_f2"})
    /\ IF Broadcastable(ns["foo_f1"].shape, ns["foo_f2"].shape)
       THEN /\ out' = Bind(out, "reshape", Sum(Eq(ns["foo_f1"], ns["foo_f2"])))
            /\ Completes("reshape", 8)
       ELSE /\ Raise("reshape", 8, "RuntimeError")
            /\ UNCHANGED out
    /\ UNCHANGED <<mode, fs, ns, writer, drawn, built, calls>>

-----------------------------------------------------------------------------
(* cell eb09e8b0: the plotting scratch cell *)

AssignDivs ==
    /\ Running("plot", 1)
    /\ nexec' = nexec + 1
    /\ ns' = Bind(ns, "divs", 12)
    /\ Writes("plot", {"divs"})
    /\ Completes("plot", 1)
    /\ UNCHANGED <<mode, fs, out, reads, drawn, built, calls>>

LinspaceFoo ==
    /\ Running("plot", 2)
    /\ nexec' = nexec + 1
    /\ Reads("plot", {"divs"})
    /\ ns' = Bind(ns, "foo", Reshape(Linspace(0, 250, ns["divs"]), <<1, ns["divs"]>>))
    /\ Writes("plot", {"foo"})
    /\ Completes("plot", 2)
    /\ UNCHANGED <<mode, fs, out, drawn, built, calls>>

TileFoo ==
    /\ Running("plot", 3)
    /\ nexec' = nexec + 1
    /\ Reads("plot", {"foo", "divs"})
    /\ ns' = Bind(ns, "foo_big", Tile(ns["foo"], <<ns["divs"], 1>>))
    /\ Writes("plot", {"foo_big"})
    /\ Completes("plot", 3)
    /\ UNCHANGED <<mode, fs, out, drawn, built, calls>>

\* foo.shape, foo_big.shape: evaluated, not displayed
EvalPlotShapes ==
    /\ Running("plot", 4)
    /\ nexec' = nexec + 1
    /\ Reads("plot", {"foo", "foo_big"})
    /\ Completes("plot", 4)
    /\ UNCHANGED <<mode, fs, ns, out, writer, drawn, built, calls>>

\* plt.imshow(foo_big): the image is the cell's displayed result
Imshow ==
    /\ Running("plot", 5)
    /\ nexec' = nexec + 1
    /\ Reads("plot", {"foo_big"})
    /\ out' = Bind(out, "plot", [image |-> ns["foo_big"]])
    /\ Completes("plot", 5)
    /\ UNCHANGED <<mode, fs, ns, writer, drawn, built, calls>>

-----------------------------------------------------------------------------
(* The notebook run *)

\* architectures a weights artifact may have been saved for
ArtifactArchs ==
    [img_size : {224}, num_classes : {400, 600}, num_frames : {8},
     attention_type : AttentionTypes]

\* the filesystem: nothing at the weights path, or an artifact (its parameter
\* values are named by a version number, 1 as saved)
FsStates ==
    {Empty} \cup {(ModelFile :> [arch |-> a, params |-> 1]) : a \in ArtifactArchs}

Fresh ==
    /\ fs \in FsStates
    /\ cur = "idle" /\ stmt = 1 /\ ran = {}
    /\ ns = Empty /\ out = Empty
    /\ errors = <<>> /\ halted = FALSE
    /\ nexec = 0 /\ writer = Empty /\ reads = {}
    /\ drawn = <<>> /\ built = <<>> /\ calls = 0

Init == mode = "notebook" /\ Fresh

Next ==
    \/ Imports \/ Commented
    \/ AssignModelFile \/ ConstructModel
    \/ DrawDummyVideo \/ CallModel \/ AssertShape \/ ShowShape
    \/ AssignDims \/ DrawFoo \/ ViewFoo \/ FlattenFoo \/ ReshapeFoo
    \/ EvalShapes \/ EvalEq \/ SumEq
    \/ AssignDivs \/ LinspaceFoo \/ TileFoo \/ EvalPlotShapes \/ Imshow

Spec == Init /\ [][Next]_vars

-----------------------------------------------------------------------------
(* construct and infer called directly: any configuration, any batch size,    *)
(* any number of forward calls on the instance                                *)

ApiConfigs ==
    [img_size : {224}, num_classes : {400, 600}, num_frames : {8},
     attention_type : AttentionTypes, pretrained_model : {ModelFile}]

\* model = TimeSformer(img_size=.., num_classes=.., num_frames=.., attention_type=..,
\*                     pretrained_model=..)
ApiConstruct ==
    /\ mode = "api"
    /\ ~halted
    /\ "model" \notin DOMAIN ns
    /\ nexec' = nexec + 1
    /\ \E config \in ApiConfigs :
          LET res == Construct(config, fs)
          IN  IF res.error = "none"
              THEN /\ ns' = Bind(ns, "model", res.model[1])
                   /\ built' = res.model
                   /\ UNCHANGED <<errors, halted>>
              ELSE /\ errors' = Append(errors, [cell |-> "construct", stmt |-> 2,
                                                kind |-> res.error, at |-> nexec + 1])
                   /\ halted' = TRUE
                   /\ UNCHANGED <<ns, built>>
    /\ UNCHANGED <<mode, fs, cur, stmt, ran, out, writer, reads, drawn, calls>>

\* mutant of ApiInfer: the prediction is indexed, pred = model(dummy_video)[0]
ApiInferFirstRow ==
    /\ mode = "api"
    /\ ~halted
    /\ "model" \in DOMAIN ns
    /\ calls < MaxCalls
    /\ nexec' = nexec + 1
    /\ \E batch \in 1..MaxBatch, seed \in 0..MaxSeed :
          LET m   == ns["model"]
              x   == RandnClip(<<batch, 3, m.config.num_frames,
                                 m.config.img_size, m.config.img_size>>, seed)
              res == Forward(m, x)
          IN  ns' = Bind(Bind(Bind(ns, "dummy_video", x),
                              "pred", [shape |-> Tail(res.pred.shape)]),
                         "model", res.model)
    /\ calls' = calls + 1
    /\ UNCHANGED <<mode, fs, cur, stmt, ran, out, errors, halted, writer, reads,
                   drawn, built>>

\* mutant of ApiInfer: the call is followed by an optimizer step on the parameters
ApiInferTrainStep ==
    /\ mode = "api"
    /\ ~halted
    /\ "model" \in DOMAIN ns
    /\ calls < MaxCalls
    /\ nexec' = nexec + 1
    /\ \E batch \in 1..MaxBatch, seed \in 0..MaxSeed :
          LET m   == ns["model"]
              x   == RandnClip(<<batch, 3, m.config.num_frames,
                                 m.config.img_size, m.config.img_size>>, seed)
              res == Forward(m, x)
          IN  ns' = Bind(Bind(Bind(ns, "dummy_video", x), "pred", res.pred),
                         "model", [res.model EXCEPT !.params = @ + 1])
    /\ calls' = calls + 1
    /\ UNCHANGED <<mode, fs, cur, stmt, ran, out, errors, halted, writer, reads,
                   drawn, built>>

\* dummy_video = torch.randn(batch, 3, frames, size, size); pred = model(dummy_video,)
ApiInfer ==
    /\ mode = "api"
    /\ ~halted
    /\ "model" \in DOMAIN ns
    /\ calls < MaxCalls
    /\ nexec' = nexec + 1
    /\ \E batch \in 1..MaxBatch, seed \in 0..MaxSeed :
          LET m   == ns["model"]
              x   == RandnClip(<<batch, 3, m.config.num_frames,
                                 m.config.img_size, m.config.img_size>>, seed)
              res == Forward(m, x)
          IN  ns' = Bind(Bind(Bind(ns, "dummy_video", x), "pred", res.pred),
                         "model", res.model)
    /\ calls' = calls + 1
    /\ UNCHANGED <<mode, fs, cur, stmt, ran, out, errors, halted, writer, reads,
                   drawn, built>>

InitInfer == mode = "api" /\ Fresh

NextInfer == ApiConstruct \/ ApiInfer

SpecInfer == InitInfer /\ [][NextInfer]_vars

-----------------------------------------------------------------------------
(* Properties *)

HarnessVars == {"model_file", "model", "dummy_video", "pred"}

HarnessCells == {"construct", "infer"}

ScratchCells == {"reshape", "plot"}

\* the TimeSformer(...) statement of the construct cell has been executed
ConstructAttempted ==
    /\ mode = "notebook"
    /\ "model_file" \in DOMAIN ns
    /\ ~(cur = "construct" /\ stmt = 2 /\ ~halted)

\* the statements of the reshape cell up to the reshape(foo, (T*B, -1)) have run
ComparisonReady ==
    /\ {"foo_f1", "foo_f2"} \subseteq DOMAIN ns
    /\ ~(cur = "reshape" /\ stmt <= 5)

\* C1: with the notebook's configuration (224, 600 classes, 8 frames, divided
\* space-time) and a matching weights artifact, the forward pass on the
\* (2,3,8,224,224) clip batch gives a prediction of shape exactly (2,600): the
\* assertion never fails and the cell displays (2,600).
C1_PredShape ==
    /\ "pred" \in DOMAIN ns => ns["pred"].shape = <<2, 600>>
    /\ \A i \in 1..Len(errors) : errors[i].kind # "AssertionError"
    /\ "infer" \in DOMAIN out => out["infer"] = <<2, 600>>

C1_Witness ==
    /\ mode = "notebook"
    /\ "infer" \in ran
    /\ ns["dummy_video"].shape = <<2, 3, 8, 224, 224>>
    /\ "infer" \in DOMAIN out

\* C2: for every constructed model and every clip batch matching its
\* configuration, of any batch size >= 1 and any values, the prediction is a
\* 2-dimensional tensor of shape (batch size of the clip batch, num_classes).
C2_InferShape ==
    "pred" \in DOMAIN ns =>
        /\ ClipMatches(ns["model"], ns["dummy_video"])
        /\ Len(ns["pred"].shape) = 2
        /\ ns["pred"].shape = <<ns["dummy_video"].shape[1], ns["model"].config.num_classes>>

C2_Witness ==
    /\ mode = "api"
    /\ calls = 2
    /\ "pred" \in DOMAIN ns
    /\ ns["dummy_video"].shape[1] = 1
    /\ ns["model"].config.num_classes = 400

\* C4: after any number of forward calls the model instance (parameters and
\* configuration) equals the instance the construction returned.
C4_ModelUnchanged ==
    "model" \in DOMAIN ns => built = <<ns["model"]>>

C4_Witness ==
    /\ mode = "api"
    /\ calls = MaxCalls
    /\ "model" \in DOMAIN ns
    /\ built = <<ns["model"]>>

\* C5: with no file at the weights path the construction raises a not-found
\* error, nothing is bound to model, and the error halts the run (no handler).
C5_MissingWeightsFail ==
    (mode = "notebook" /\ ModelFile \notin DOMAIN fs) =>
        /\ "model" \notin DOMAIN ns
        /\ built = <<>>
        /\ ConstructAttempted =>
              /\ halted
              /\ Len(errors) = 1
              /\ errors[1].kind = "FileNotFoundError"
              /\ errors[1].cell = "construct" /\ errors[1].stmt = 2
              /\ "construct" \notin ran

C5_Witness ==
    /\ mode = "notebook"
    /\ ModelFile \notin DOMAIN fs
    /\ ConstructAttempted
    /\ halted

\* C6: an artifact whose architecture differs from the configuration's makes the
\* construction raise a mismatch error; a failing construction binds no instance
\* and is not retried; a bound instance holds exactly the artifact's parameters.
C6_AllOrNothing ==
    /\ (/\ ConstructAttempted
        /\ ModelFile \in DOMAIN fs
        /\ fs[ModelFile].arch # Arch(NotebookConfig(ModelFile)))
         => /\ halted
            /\ Len(errors) = 1
            /\ errors[1].kind = "MismatchError"
    /\ (\E i \in 1..Len(errors) : errors[i].cell = "construct")
         => /\ "model" \notin DOMAIN ns
            /\ built = <<>>
            /\ Len(errors) = 1
            /\ nexec = errors[1].at
    /\ (mode = "notebook" /\ "model" \in DOMAIN ns)
         => /\ ModelFile \in DOMAIN fs
            /\ ns["model"].params = fs[ModelFile].params
            /\ Arch(ns["model"].config) = fs[ModelFile].arch

C6_Witness ==
    /\ mode = "notebook"
    /\ ModelFile \in DOMAIN fs
    /\ halted
    /\ Len(errors) = 1
    /\ errors[1].kind = "MismatchError"
    /\ "model" \notin DOMAIN ns

\* C7: the reshape cell's sum of (foo_f1 == foo_f2) is T*B*C*H*W, every element
\* compares equal, for every dimensions and every draw; the cell raises nothing.
C7_FlattenEquivalence ==
    /\ "reshape" \in DOMAIN out =>
          out["reshape"] = ns["T"] * ns["B"] * ns["C"] * ns["H"] * ns["W"]
    /\ \A i \in 1..Len(errors) : errors[i].cell # "reshape"

C7_Witness ==
    /\ "reshape" \in DOMAIN out
    /\ ns["T"] = MaxDim /\ ns["B"] = MaxDim /\ ns["C"] = 3
    /\ ns["H"] = MaxDim /\ ns["W"] = 1
    /\ out["reshape"] = MaxDim * MaxDim * 3 * MaxDim

\* C8: an exception halts the run at the failing statement: no statement of any
\* cell executes after it, so after a failed construction the forward call and
\* the assertion never run; the only exception the notebook's own code can raise
\* is the assertion's.
C8_FailureHalts ==
    errors # <<>> =>
        /\ halted
        /\ Len(errors) = 1
        /\ nexec = errors[1].at
        /\ cur = errors[1].cell /\ stmt = errors[1].stmt
        /\ errors[1].cell \notin ran
        /\ \/ /\ errors[1].kind \in {"FileNotFoundError", "MismatchError"}
              /\ errors[1].cell = "construct" /\ errors[1].stmt = 2
              /\ "pred" \notin DOMAIN ns
              /\ "dummy_video" \notin DOMAIN ns
              /\ "infer" \notin ran
              /\ calls = 0
           \/ /\ errors[1].kind = "AssertionError"
              /\ errors[1].cell = "infer" /\ errors[1].stmt = 3

C8_Witness ==
    /\ mode = "notebook"
    /\ halted
    /\ errors[1].cell = "construct"
    /\ "reshape" \in ran
    /\ "plot" \notin ran
    /\ "infer" \notin ran

\* the image the plotting cell displays: 12 rows, each 0, 250/11, ..., 250
PlotImage ==
    [image |-> [shape   |-> <<12, 12>>,
                strides |-> <<12, 1>>,
                storage |-> [k \in 1..144 |-> <<250 * ((k - 1) % 12), 11>>]]]

\* C9: the scratch cells read only values they assigned themselves and assign
\* none of model_file, model, dummy_video, pred; the harness cells read only
\* values the harness assigned; so each cell's displayed result is the same
\* wherever the scratch cells run.
C9_ScratchIsolated ==
    /\ \A r \in reads :
          /\ r.cell \in ScratchCells => (r.from = r.cell /\ r.var \notin HarnessVars)
          /\ r.cell \in HarnessCells => (r.from \in HarnessCells /\ r.var \in HarnessVars)
    /\ \A v \in DOMAIN writer : v \in HarnessVars <=> writer[v] \in HarnessCells
    /\ "infer" \in DOMAIN out => out["infer"] = ExpectedShape
    /\ "plot" \in DOMAIN out => out["plot"] = PlotImage
    /\ "reshape" \in DOMAIN out => out["reshape"] = Len(drawn[1].storage)

C9_Witness ==
    /\ {"infer", "reshape", "plot"} \subseteq ran
    /\ writer["foo"] = "reshape"
    /\ \E r \in reads : r.cell = "plot" /\ r.var = "foo"
    /\ \E r \in reads : r.cell = "reshape" /\ r.var = "foo"

\* C10: when foo_f1 and foo_f2 are compared, foo_f2 is reshape(foo, (T*B, -1)):
\* the flatten(foo, 2) result of shape (T, B, C*H*W) was overwritten; both have
\* shape (T*B, C*H*W), which is (320, 363) for the notebook's dimensions; foo is
\* the tensor randn returned.
C10_Foo2IsReshape ==
    /\ (cur = "reshape" /\ stmt = 5 /\ ~halted) =>
          ns["foo_f2"].shape = <<ns["T"], ns["B"], ns["C"] * ns["H"] * ns["W"]>>
    /\ ComparisonReady =>
          /\ ns["foo_f1"].shape = <<ns["T"] * ns["B"], ns["C"] * ns["H"] * ns["W"]>>
          /\ ns["foo_f2"].shape = ns["foo_f1"].shape
          /\ ns["foo_f2"] = Reshape(drawn[1], <<ns["T"] * ns["B"], -1>>)
          /\ writer["foo"] = "reshape" => ns["foo"] = drawn[1]
    /\ InferSize(<<NotebookDims[1] * NotebookDims[2], -1>>, Prod(NotebookDims)) = <<320, 363>>

C10_Witness ==
    /\ cur = "reshape" /\ stmt = 7
    /\ ns["T"] = MaxDim /\ ns["B"] = MaxDim
    /\ ns["C"] = 3
    /\ ns["foo_f2"].shape = <<MaxDim * MaxDim, 3 * ns["H"] * ns["W"]>>
    /\ ns["foo"] = drawn[1]

=============================================================================
